---- MODULE Spec2Model ----
(***************************************************************************)
(* Model of the weather map application (src/app.py): the Dash callback    *)
(* update_map_and_weather and the three provider clients it calls,         *)
(* get_coordinates, get_weather and get_historical_weather.                *)
(*                                                                         *)
(* Coordinates are fixed-point integers (degrees * 10^4), temperatures are *)
(* tenths of a degree Celsius, calendar dates are day ordinals.            *)
(* Python values that may be absent are tagged records: None, Unbound (a   *)
(* local name not yet assigned), Str(s) and the figures.                   *)
(***************************************************************************)
EXTENDS Integers, Sequences, FiniteSets, TLC

\* ---------------------------------------------------------------- bounds
MaxClicks == 2      \* clicks of the Query button per browser session
MaxTicks == 1       \* midnights the clock may pass during a run
MaxDays == 7        \* largest `days` argument of a direct historical fetch

\* ------------------------------------------------------ program constants
DefaultDays == 7            \* days=7
DefaultLat == 236978        \* 23.6978
DefaultLon == 1209605       \* 120.9605
DefaultZoom == 7            \* zoom of the module-level figure / else branch
MarkerZoom == 7             \* zoom of the figure centred on a new marker

Sessions == {1, 2}
Scopes == {0} \cup Sessions   \* 0: module namespace, s: frame of s's callback

\* ------------------------------------------------------------ Python values
None == [t |-> "None"]
Unbound == [t |-> "unbound"]
Str(v) == [t |-> "str", v |-> v]
NoResult == [t |-> "none", k |-> "none"]

\* Python truthiness of the State value of location-input (None or a str).
Truthy(x) == x.t = "str" /\ x.v # ""

\* The figure created at module level and again in the else branch.
DefaultFigure ==
    [t |-> "Figure", lat |-> <<>>, lon |-> <<>>, text |-> <<>>,
     center |-> [lat |-> DefaultLat, lon |-> DefaultLon], zoom |-> DefaultZoom]

\* go.Figure() with no trace and no layout: the "empty chart".
EmptyChart == [t |-> "Figure", x |-> <<>>, y |-> <<>>, title |-> ""]

PromptMessage ==
    Str("Enter a location and click 'Query' to show the weather data and location on the map")

\* ------------------------------------------------------- provider responses
KHH == <<1203000, 226300>>     \* [lon, lat] of a candidate
TPE == <<1215654, 250330>>

Json(features) == [k |-> "json", features |-> features]

NameInputs == {None, Str(""), Str(" "), Str("Kaohsiung")}
GeoResponses ==
    {[k |-> "fault"], [k |-> "malformed"],
     Json(<<>>), Json(<<KHH>>), Json(<<TPE, KHH>>)}
WxResponses ==
    {[k |-> "fault"], [k |-> "nocurrent"],
     [k |-> "current", temp_c |-> 0], [k |-> "current", temp_c |-> 295]}
HistResponses ==
    {[k |-> "fault"], [k |-> "emptyday"], [k |-> "nodata"],
     [k |-> "ok", avgtemp_c |-> 215]}

\* Reduced response sets used when two queries overlap.
ConcNames == {Str(""), Str("Kaohsiung")}
ConcGeo == {[k |-> "fault"], Json(<<>>), Json(<<KHH>>), Json(<<TPE, KHH>>)}
ConcWx == {[k |-> "fault"], [k |-> "nocurrent"], [k |-> "current", temp_c |-> 295]}
ConcHist == {[k |-> "fault"], [k |-> "ok", avgtemp_c |-> 215]}

VARIABLES
    active,          \* browser sessions that exist in this run
    today,           \* day ordinal read by datetime.now()
    n_clicks,        \* n_clicks property of query-button, per session
    pc,              \* where each session's callback is suspended
    location_name,   \* argument of the running / last callback
    fig,             \* fig[0]: module-level fig; fig[s]: local fig of s
    coords,          \* local coords
    location_info,   \* local location_info
    line_chart,      \* local line_chart
    historical_data, \* historical_data of the running historical fetch
    hist_i,          \* loop index i of the historical fetch
    hist_log,        \* lookups made by the historical fetch: date and reply
    days,            \* days argument of the historical fetch
    geo_resp,        \* reply the geocoding provider gave this callback
    wx_resp,         \* reply the weather provider gave this callback
    requests,        \* requests.get calls made by this callback
    result,          \* what the last callback returned or raised
    map_figure,      \* figure property of dcc.Graph id='map', per session
    last_resolved    \* coordinate of the last successful geocode, per session

vars == <<active, today, n_clicks, pc, location_name, fig, coords,
          location_info, line_chart, historical_data, hist_i, hist_log, days,
          geo_resp, wx_resp, requests, result, map_figure, last_resolved>>

\* ------------------------------------------------------------ pure helpers

\* get_coordinates: None unless the provider answered with a non-empty
\* feature list; then the first feature's [lon, lat] pair as a dict.
get_coordinates_swapped(resp) ==
    IF resp.k = "json" /\ resp.features # <<>>
    THEN [t |-> "dict", lon |-> resp.features[1][2], lat |-> resp.features[1][1]]
    ELSE None

get_coordinates(resp) ==
    IF resp.k = "json" /\ resp.features # <<>>
    THEN [t |-> "dict", lon |-> resp.features[1][1], lat |-> resp.features[1][2]]
    ELSE None

\* get_weather: the temperature when the reply has a 'current' object,
\* None on any exception or when 'current' is missing.
get_weather(resp) ==
    IF resp.k = "current" THEN [t |-> "float", v |-> resp.temp_c] ELSE None

\* f"{temperature}" for a float held in tenths of a degree.
FormatTemp(v) ==
    LET a == IF v < 0 THEN 0 - v ELSE v
    IN (IF v < 0 THEN "-" ELSE "") \o ToString(a \div 10) \o "." \o ToString(a % 10)

TemperatureMessage(v) == Str("Current temperature: " \o FormatTemp(v) \o "°C")

NotFoundMessage(name) == Str("Location '" \o name.v \o "' not found.")

\* Which scope the name `fig` denotes inside update_map_and_weather: the
\* function assigns it, so it is local to the running invocation.
FigScopeGlobal(s) == 0

FigScope(s) == s

\* The figure built for a successful geocode: one Scattermapbox trace with
\* the new marker, centred on it.
MarkerFigureAccumulating(s, c) ==
    [t |-> "Figure",
     lat |-> Append(map_figure[s].lat, c.lat),
     lon |-> Append(map_figure[s].lon, c.lon),
     text |-> Append(map_figure[s].text, location_name[s].v),
     center |-> [lat |-> c.lat, lon |-> c.lon], zoom |-> MarkerZoom]

MarkerFigure(s, c) ==
    [t |-> "Figure",
     lat |-> <<c.lat>>, lon |-> <<c.lon>>, text |-> <<location_name[s].v>>,
     center |-> [lat |-> c.lat, lon |-> c.lon], zoom |-> MarkerZoom]

\* One pass of the loop body of get_historical_weather for a reply that did
\* not raise: a reply with forecast data appends a sample, any other is
\* skipped.
HistBody(hd, date, resp) ==
    IF resp.k = "ok"
    THEN Append(hd, [date |-> date, temperature |-> resp.avgtemp_c])
    ELSE hd

\* Replies that raise inside the try block: a failed request, an HTTP error
\* status, a body that is not JSON, an empty forecastday list.
HistRaises(resp) == resp.k \in {"fault", "emptyday"}

\* The line chart built from the historical data.
Column(hd, f) == [j \in 1..Len(hd) |-> hd[j][f]]

LineChart(hd, name) ==
    IF hd # <<>>
    THEN [t |-> "Figure", x |-> Column(hd, "date"), y |-> Column(hd, "temperature"),
          title |-> "Historical Weather Data for " \o name.v]
    ELSE [t |-> "Figure", x |-> <<>>, y |-> <<>>,
          title |-> "No historical data available"]

\* `return fig, line_chart, location_info`: the tuple is evaluated left to
\* right and reading a local that was never assigned raises.
ReturnStatement(f, lc, li) ==
    IF f = Unbound THEN [t |-> "raised", exc |-> "UnboundLocalError", name |-> "fig"]
    ELSE IF lc = Unbound
         THEN [t |-> "raised", exc |-> "UnboundLocalError", name |-> "line_chart"]
    ELSE IF li = Unbound
         THEN [t |-> "raised", exc |-> "UnboundLocalError", name |-> "location_info"]
    ELSE [t |-> "returned", fig |-> f, line_chart |-> lc, location_info |-> li]

\* ------------------------------------------------------------------ state

Init0 ==
    /\ today = 0
    /\ n_clicks = [s \in Sessions |-> 0]
    /\ location_name = [s \in Sessions |-> None]
    /\ fig = [sc \in Scopes |-> IF sc = 0 THEN DefaultFigure ELSE Unbound]
    /\ coords = [s \in Sessions |-> None]
    /\ location_info = [s \in Sessions |-> Unbound]
    /\ line_chart = [s \in Sessions |-> Unbound]
    /\ historical_data = [s \in Sessions |-> <<>>]
    /\ hist_i = [s \in Sessions |-> 0]
    /\ hist_log = [s \in Sessions |-> <<>>]
    /\ geo_resp = [s \in Sessions |-> NoResult]
    /\ wx_resp = [s \in Sessions |-> NoResult]
    /\ requests = [s \in Sessions |-> 0]
    /\ result = [s \in Sessions |-> NoResult]
    /\ map_figure = [s \in Sessions |-> DefaultFigure]
    /\ last_resolved = [s \in Sessions |-> None]

\* One browser session: the page is about to be loaded.
Init ==
    /\ Init0
    /\ active = {1}
    /\ days = [s \in Sessions |-> DefaultDays]
    /\ pc = [s \in Sessions |-> IF s = 1 THEN "load" ELSE "off"]

\* Two browser sessions whose pages have been loaded.
ConcInit ==
    /\ Init0
    /\ active = Sessions
    /\ days = [s \in Sessions |-> DefaultDays]
    /\ pc = [s \in Sessions |-> "idle"]

\* A direct call get_historical_weather(lat, lon, days) is running.
HistInit ==
    /\ Init0
    /\ active = {1}
    /\ days \in [Sessions -> 1..MaxDays]
    /\ days[2] = DefaultDays
    /\ pc = [s \in Sessions |-> IF s = 1 THEN "hist_call" ELSE "off"]

\* ---------------------------------------------------------------- actions

\* The callback's outputs reach the page: Dash sets the three Output
\* properties when the callback returned and leaves them alone when it raised.
Deliver(s, res) ==
    /\ result' = [result EXCEPT ![s] = res]
    /\ map_figure' = [map_figure EXCEPT
                        ![s] = IF res.t = "returned" THEN res.fig ELSE @]
    /\ pc' = [pc EXCEPT ![s] = "idle"]

\* update_map_and_weather(n, name) is entered: a fresh frame, the test of
\* line 134, and either the geocoding request or the whole else branch.
Callback(s, n, name) ==
    /\ location_name' = [location_name EXCEPT ![s] = name]
    /\ coords' = [coords EXCEPT ![s] = None]
    /\ historical_data' = [historical_data EXCEPT ![s] = <<>>]
    /\ hist_i' = [hist_i EXCEPT ![s] = 0]
    /\ hist_log' = [hist_log EXCEPT ![s] = <<>>]
    /\ geo_resp' = [geo_resp EXCEPT ![s] = NoResult]
    /\ wx_resp' = [wx_resp EXCEPT ![s] = NoResult]
    /\ IF n > 0 /\ Truthy(name)
       THEN /\ fig' = [fig EXCEPT ![s] = Unbound]
            /\ location_info' = [location_info EXCEPT ![s] = Unbound]
            /\ line_chart' = [line_chart EXCEPT ![s] = Unbound]
            /\ requests' = [requests EXCEPT ![s] = 1]
            /\ result' = [result EXCEPT ![s] = NoResult]
            /\ pc' = [pc EXCEPT ![s] = "geocoding"]
            /\ UNCHANGED map_figure
       ELSE /\ fig' = [fig EXCEPT ![s] = Unbound, ![FigScope(s)] = DefaultFigure]
            /\ location_info' = [location_info EXCEPT ![s] = PromptMessage]
            /\ line_chart' = [line_chart EXCEPT ![s] = EmptyChart]
            /\ requests' = [requests EXCEPT ![s] = 0]
            /\ Deliver(s, ReturnStatement(fig'[FigScope(s)], EmptyChart, PromptMessage))
    /\ UNCHANGED <<active, today, days, last_resolved>>

\* The page loads: Dash calls the callback once with the layout's values,
\* n_clicks = 0 and no value in location-input.
InitialRender(s) ==
    /\ s \in active
    /\ pc[s] = "load"
    /\ Callback(s, n_clicks[s], None)
    /\ UNCHANGED n_clicks

\* The user clicks Query with `name` in the input box.
Click(s, names) ==
    /\ s \in active
    /\ pc[s] = "idle"
    /\ n_clicks[s] < MaxClicks
    /\ n_clicks' = [n_clicks EXCEPT ![s] = @ + 1]
    /\ \E name \in names : Callback(s, n_clicks'[s], name)

\* The geocoding provider answers (or the request fails): lines 135-167 up
\* to the weather request, or lines 197-199 and the return statement.
GeocodeReply(s, resps) ==
    /\ s \in active
    /\ pc[s] = "geocoding"
    /\ \E resp \in resps :
        LET c == get_coordinates(resp) IN
        /\ geo_resp' = [geo_resp EXCEPT ![s] = resp]
        /\ coords' = [coords EXCEPT ![s] = c]
        /\ IF c # None
           THEN /\ fig' = [fig EXCEPT ![FigScope(s)] = MarkerFigure(s, c)]
                /\ last_resolved' = [last_resolved EXCEPT
                                       ![s] = [lat |-> c.lat, lon |-> c.lon]]
                /\ requests' = [requests EXCEPT ![s] = @ + 1]
                /\ pc' = [pc EXCEPT ![s] = "weather"]
                /\ UNCHANGED <<location_info, line_chart, result, map_figure>>
           ELSE /\ location_info' = [location_info EXCEPT
                                       ![s] = NotFoundMessage(location_name[s])]
                /\ line_chart' = [line_chart EXCEPT ![s] = EmptyChart]
                /\ Deliver(s, ReturnStatement(fig[FigScope(s)], EmptyChart,
                                              NotFoundMessage(location_name[s])))
                /\ UNCHANGED <<fig, last_resolved, requests>>
    /\ UNCHANGED <<active, today, n_clicks, location_name, historical_data,
                   hist_i, hist_log, days, wx_resp>>

\* The weather provider answers the current-conditions request: lines
\* 170-176, then get_historical_weather starts and sends its first request.
WeatherReply(s, resps) ==
    /\ s \in active
    /\ pc[s] = "weather"
    /\ \E resp \in resps :
        LET temperature == get_weather(resp) IN
        /\ wx_resp' = [wx_resp EXCEPT ![s] = resp]
        /\ location_info' = [location_info EXCEPT
              ![s] = IF temperature # None THEN TemperatureMessage(temperature.v)
                     ELSE @]
    /\ historical_data' = [historical_data EXCEPT ![s] = <<>>]
    /\ hist_i' = [hist_i EXCEPT ![s] = 0]
    /\ requests' = [requests EXCEPT ![s] = @ + 1]
    /\ pc' = [pc EXCEPT ![s] = "history"]
    /\ UNCHANGED <<active, today, n_clicks, location_name, fig, coords,
                   line_chart, hist_log, days, geo_resp, result, map_figure,
                   last_resolved>>

\* One reply to a per-day lookup of get_historical_weather (state of the
\* loop after it): the new list, the new index and whether the call is over.
HistNext(hd, i, d, date, resp) ==
    IF HistRaises(resp)
    THEN [hd |-> hd, i |-> i, over |-> TRUE]
    ELSE [hd |-> HistBody(hd, date, resp), i |-> i + 1, over |-> i + 1 >= d]

\* The weather provider answers the lookup for day today - i inside the
\* callback; when the fetch is over, lines 180-196 and the return statement.
HistReply(s, resps) ==
    /\ s \in active
    /\ pc[s] = "history"
    /\ \E resp \in resps :
        LET date == today - hist_i[s]
            n == HistNext(historical_data[s], hist_i[s], days[s], date, resp)
            chart == LineChart(n.hd, location_name[s])
        IN
        /\ hist_log' = [hist_log EXCEPT ![s] = Append(@, [date |-> date, resp |-> resp])]
        /\ historical_data' = [historical_data EXCEPT ![s] = n.hd]
        /\ hist_i' = [hist_i EXCEPT ![s] = n.i]
        /\ IF n.over
           THEN /\ line_chart' = [line_chart EXCEPT ![s] = chart]
                /\ Deliver(s, ReturnStatement(fig[FigScope(s)], chart, location_info[s]))
                /\ UNCHANGED requests
           ELSE /\ requests' = [requests EXCEPT ![s] = @ + 1]
                /\ UNCHANGED <<line_chart, result, map_figure, pc>>
    /\ UNCHANGED <<active, today, n_clicks, location_name, fig, coords,
                   location_info, days, geo_resp, wx_resp, last_resolved>>

\* The same reply inside a direct call get_historical_weather(lat, lon, days).
HistCallReply(s, resps) ==
    /\ s \in active
    /\ pc[s] = "hist_call"
    /\ \E resp \in resps :
        LET date == today - hist_i[s]
            n == HistNext(historical_data[s], hist_i[s], days[s], date, resp)
        IN
        /\ hist_log' = [hist_log EXCEPT ![s] = Append(@, [date |-> date, resp |-> resp])]
        /\ historical_data' = [historical_data EXCEPT ![s] = n.hd]
        /\ hist_i' = [hist_i EXCEPT ![s] = n.i]
        /\ pc' = [pc EXCEPT ![s] = IF n.over THEN "hist_done" ELSE "hist_call"]
    /\ UNCHANGED <<active, today, n_clicks, location_name, fig, coords,
                   location_info, line_chart, days, geo_resp, wx_resp, requests,
                   result, map_figure, last_resolved>>

\* Midnight passes: datetime.now() is read again in every loop iteration.
Tick ==
    /\ today < MaxTicks
    /\ today' = today + 1
    /\ UNCHANGED <<active, n_clicks, pc, location_name, fig, coords,
                   location_info, line_chart, historical_data, hist_i, hist_log,
                   days, geo_resp, wx_resp, requests, result, map_figure,
                   last_resolved>>

\* A session starts its only query while the other's may be in flight.
ConcClick(s) ==
    /\ result[s] = NoResult
    /\ Click(s, ConcNames)

Next ==
    \/ \E s \in Sessions : InitialRender(s)
    \/ \E s \in Sessions : Click(s, NameInputs)
    \/ \E s \in Sessions : GeocodeReply(s, GeoResponses)
    \/ \E s \in Sessions : WeatherReply(s, WxResponses)
    \/ \E s \in Sessions : HistReply(s, HistResponses)
    \/ Tick

ConcNext ==
    \/ \E s \in Sessions : ConcClick(s)
    \/ \E s \in Sessions : GeocodeReply(s, ConcGeo)
    \/ \E s \in Sessions : WeatherReply(s, ConcWx)
    \/ \E s \in Sessions : HistReply(s, ConcHist)

HistCallNext ==
    \/ \E s \in Sessions : HistCallReply(s, HistResponses)
    \/ Tick

Spec == Init /\ [][Next]_vars

SpecConc == ConcInit /\ [][ConcNext]_vars

SpecHist == HistInit /\ [][HistCallNext]_vars

\* ------------------------------------------------------------ properties

\* A callback of session s has terminated (returned or raised).
Done(s) == s \in active /\ pc[s] = "idle" /\ result[s] # NoResult

\* str.strip() on the names of the model.
Strip(v) == IF v \in {"", " "} THEN "" ELSE v

Blank(name) == name = None \/ Strip(name.v) = ""

GeocodeSucceeded(s) == geo_resp[s].k = "json" /\ geo_resp[s].features # <<>>

\* The fixed "awaiting input" result.
AwaitingInput ==
    [t |-> "returned", fig |-> DefaultFigure, line_chart |-> EmptyChart,
     location_info |-> PromptMessage]

\* C1: every invocation of the callback, whatever its inputs and whatever
\* the providers answer, terminates by returning the three outputs (map
\* figure, chart figure, status message) and never raises.
C1_AlwaysReturnsResult ==
    \A s \in Sessions :
        Done(s) => /\ result[s].t = "returned"
                   /\ result[s].fig.t = "Figure"
                   /\ result[s].line_chart.t = "Figure"
                   /\ result[s].location_info.t = "str"

\* C2: when the geocoding provider answers with zero candidates the callback
\* returns the message "Location '<name>' not found.", adds no marker and
\* leaves the map view as it was before the query.
C2_NotFoundReturnsMessage ==
    [][\A s \in Sessions :
        (pc[s] = "geocoding" /\ pc'[s] = "idle" /\ geo_resp'[s] = Json(<<>>))
        => /\ result'[s].t = "returned"
           /\ result'[s].location_info = NotFoundMessage(location_name[s])
           /\ map_figure'[s] = map_figure[s]
           /\ last_resolved'[s] = last_resolved[s]]_vars

\* C3: when the geocode succeeds and get_weather then yields None, the
\* callback still returns, the figure it delivers carries the marker of the
\* resolved location, and a status message is reported.
C3_MarkerKeptWhenWeatherFails ==
    \A s \in Sessions :
        (Done(s) /\ coords[s] # None /\ get_weather(wx_resp[s]) = None)
        => /\ result[s].t = "returned"
           /\ result[s].fig.lat = <<coords[s].lat>>
           /\ result[s].fig.lon = <<coords[s].lon>>
           /\ map_figure[s] = result[s].fig
           /\ result[s].location_info.t = "str"

\* The samples of the lookups of a log that answered with data, in order.
RECURSIVE OkSamples(_)
OkSamples(log) ==
    IF log = <<>> THEN <<>>
    ELSE LET h == Head(log) IN
         (IF h.resp.k = "ok"
          THEN <<[date |-> h.date, temperature |-> h.resp.avgtemp_c]>>
          ELSE <<>>) \o OkSamples(Tail(log))

\* C4: a historical fetch with days = d looks up every one of the d dates,
\* whatever the other lookups did, and returns exactly the samples of the
\* dates that answered with data, in request order.
C4_EveryDayLookedUp ==
    \A s \in Sessions :
        pc[s] = "hist_done"
        => /\ Len(hist_log[s]) = days[s]
           /\ historical_data[s] = OkSamples(hist_log[s])

\* C5: an invocation with zero clicks, or with an absent, empty or
\* whitespace-only name, sends no request to any provider and returns the
\* fixed awaiting-input result (default figure, prompt message).
C5_BlankInputNoNetwork ==
    \A s \in Sessions :
        (s \in active /\ pc[s] \notin {"load", "off", "hist_call", "hist_done"}
         /\ (result[s] # NoResult \/ pc[s] # "idle")
         /\ (n_clicks[s] = 0 \/ Blank(location_name[s])))
        => /\ requests[s] = 0
           /\ pc[s] = "idle"
           /\ result[s] = AwaitingInput

\* C6: between queries the map view is centred on the most recently
\* resolved coordinate when some query of the session has resolved one, and
\* on the default centre with the overview zoom only when none has.
C6_ViewFollowsLastResolved ==
    \A s \in Sessions :
        (s \in active /\ pc[s] = "idle")
        => IF last_resolved[s] # None
           THEN /\ map_figure[s].center = last_resolved[s]
                /\ map_figure[s].zoom = MarkerZoom
           ELSE /\ map_figure[s].center = [lat |-> DefaultLat, lon |-> DefaultLon]
                /\ map_figure[s].zoom = DefaultZoom

\* C7: when the geocode lookup ends in a transport fault the callback
\* returns a failure message that differs from the not-found message.
C7_TransportFaultDistinctMessage ==
    \A s \in Sessions :
        (Done(s) /\ geo_resp[s].k \in {"fault", "malformed"})
        => /\ result[s].t = "returned"
           /\ result[s].location_info # NotFoundMessage(location_name[s])

C9_MarkerIsFirstCandidate ==
    \A s \in Sessions :
        (s \in active /\ GeocodeSucceeded(s))
        => LET first == geo_resp[s].features[1] IN
           /\ coords[s] = [t |-> "dict", lon |-> first[1], lat |-> first[2]]
           /\ fig[s].lat = <<first[2]>>
           /\ fig[s].lon = <<first[1]>>
           /\ fig[s].text = <<location_name[s].v>>
           /\ fig[s].center = [lat |-> first[2], lon |-> first[1]]
           /\ (Done(s) /\ result[s].t = "returned" => result[s].fig = fig[s])

\* A query whose provider listed two candidates has returned.
C9_Witness ==
    \E s \in Sessions :
        /\ Done(s)
        /\ geo_resp[s] = Json(<<TPE, KHH>>)
        /\ result[s].t = "returned"
        /\ result[s].fig.lat = <<TPE[2]>>

\* What get_historical_weather returns for a given sequence of replies.
RECURSIVE HistAlone(_)
HistAlone(log) ==
    IF log = <<>> THEN <<>>
    ELSE LET h == Head(log) IN
         IF h.resp.k \in {"fault", "emptyday"} THEN <<>>
         ELSE IF h.resp.k = "ok"
              THEN <<[date |-> h.date, temperature |-> h.resp.avgtemp_c]>>
                   \o HistAlone(Tail(log))
              ELSE HistAlone(Tail(log))

\* What one call of the callback yields when nothing else runs, as a
\* function of its arguments and of the providers' replies.
RunAlone(n, name, geo, wx, log) ==
    IF ~(n > 0 /\ name # None /\ name.v # "") THEN AwaitingInput
    ELSE IF ~(geo.k = "json" /\ geo.features # <<>>)
         THEN [t |-> "raised", exc |-> "UnboundLocalError", name |-> "fig"]
    ELSE IF wx.k # "current"
         THEN [t |-> "raised", exc |-> "UnboundLocalError", name |-> "location_info"]
    ELSE [t |-> "returned",
          fig |-> [t |-> "Figure",
                   lat |-> <<geo.features[1][2]>>, lon |-> <<geo.features[1][1]>>,
                   text |-> <<name.v>>,
                   center |-> [lat |-> geo.features[1][2], lon |-> geo.features[1][1]],
                   zoom |-> 7],
          line_chart |-> LineChart(HistAlone(log), name),
          location_info |-> TemperatureMessage(wx.temp_c)]

\* C10: overlapping queries. The module-level fig is never written, a query
\* in flight holds the marker and the samples of its own replies only, and
\* every query ends with exactly the result it yields when run alone on the
\* same arguments and replies.
C10_OverlapIsolated ==
    /\ fig[0] = DefaultFigure
    /\ \A s \in Sessions :
        /\ (s \in active /\ pc[s] \in {"weather", "history"})
           => /\ fig[s].lat = <<geo_resp[s].features[1][2]>>
              /\ fig[s].lon = <<geo_resp[s].features[1][1]>>
              /\ historical_data[s] = HistAlone(hist_log[s])
        /\ Done(s)
           => result[s] = RunAlone(n_clicks[s], location_name[s], geo_resp[s],
                                   wx_resp[s], hist_log[s])

\* Two queries that resolved different places are both in the middle of
\* their historical fetch.
C10_Witness ==
    /\ pc[1] = "history" /\ pc[2] = "history"
    /\ hist_i[1] >= 1 /\ hist_i[2] >= 1
    /\ coords[1] # coords[2]

====
